---------------------------- MODULE Spec2Model ----------------------------
(***************************************************************************)
(* A model of the FSA::DFA automaton engine (src/RL/dfa.cpp, src/RL/dfa.h, *)
(* src/RL/rl_fsa.h): the integer-identifier DFA of dfa.cpp with its        *)
(* cross-product construction, complement, clear and empty_string, and     *)
(* the evaluation loop of dfa.h.                                           *)
(*                                                                         *)
(* A DFA is the record of the four data members dfa.cpp uses:              *)
(*   num_states    size_t                                                  *)
(*   transitions   unordered_map<node_id, unordered_map<char, node_id>>,   *)
(*                 a function whose DOMAIN is the set of states that have  *)
(*                 a table entry, each entry a function whose DOMAIN is    *)
(*                 the set of characters with a move                       *)
(*   start_state   node_id                                                 *)
(*   accept_states std::vector<bool>, a function over 0..size-1            *)
(* std::vector<bool>::operator[] does no bounds check: an access at an     *)
(* index >= size() is undefined behaviour.  The model records that it      *)
(* happened (ub), lets the process die there (crashed) or go on, and lets  *)
(* an out-of-range read return either bit.                                 *)
(***************************************************************************)
EXTENDS Integers, Sequences, FiniteSets, TLC

VARIABLES
    M1,         \* first operand (*this)
    M2,         \* second operand (other)
    R,          \* the automaton returned by the last operation
    op,         \* the last operation
    ub,         \* the last operation made an out-of-range vector<bool> access
    crashed,    \* the process died in an out-of-range access
    input,      \* evaluate: the string [begin, end) being read
    pos,        \* evaluate: number of symbols consumed (begin's offset)
    curr_node,  \* evaluate: the current state, or nullopt
    steps,      \* evaluate: number of calls of delta so far
    subject,    \* evaluate: the automaton evaluate was called on (*this)
    ret,        \* evaluate: "running", or the returned value "true"/"false"
    partition   \* minimize_states: the classes of the refinement under way

vars ==
    <<M1, M2, R, op, ub, crashed, input, pos, curr_node, steps, subject, ret,
      partition>>

(***************************************************************************)
(* Bounds of the model.                                                    *)
(***************************************************************************)
MaxStates == 2      \* operands have 1..MaxStates states
MaxDefined == 2     \* operands of Spec have at most MaxDefined defined moves
MaxLen == 3         \* input strings have at most MaxLen symbols

Sigma == {"a", "b"}

\* the empty std::optional<node_id_t>
nullopt == -1

RECURSIVE StringsOfLen(_)
StringsOfLen(k) ==
    IF k = 0 THEN {<<>>}
    ELSE {Append(s, c) : s \in StringsOfLen(k - 1), c \in Sigma}

Strings == UNION {StringsOfLen(k) : k \in 0..MaxLen}

(***************************************************************************)
(* Construction of the automata the operations start from.                 *)
(***************************************************************************)

\* The object a plain declaration `DFA out;' / `DFA M_prime;' yields in
\* dfa.cpp: both containers empty (empty_string() makes its one accept bit
\* by a push_back on it).  empty_string() and cross_product_construction()
\* assign num_states and start_state before anything reads them, so their
\* initial value is immaterial.  The constructor of dfa.h, which builds the
\* one-state automaton in the node representation, is config_empty_string
\* below.
DFA_default ==
    [num_states |-> 0, transitions |-> <<>>, start_state |-> 0,
     accept_states |-> <<>>]

\* an empty_string() that leaves out `accept_states.push_back(true)'
empty_string_no_push ==
    [DFA_default EXCEPT !.num_states = 1, !.start_state = 0]

\* DFA::empty_string()
empty_string ==
    LET out == DFA_default
    IN  [out EXCEPT !.num_states = 1,
                    !.accept_states =
                        [i \in 0..Cardinality(DOMAIN out.accept_states) |->
                            IF i \in DOMAIN out.accept_states
                            THEN out.accept_states[i] ELSE TRUE],
                    !.start_state = 0]

\* DFA::DFA() of dfa.h: config_empty_string() makes one accepting node, the
\* start state, and no transitions (in the representation of dfa.cpp).
config_empty_string ==
    [num_states |-> 1, transitions |-> <<>>, start_state |-> 0,
     accept_states |-> [i \in {0} |-> TRUE]]

\* The transition table holding the defined moves of d, a function from
\* (state, character) to a state or nullopt.
TableOf(n, d) ==
    [q \in {p \in 0..(n - 1) : \E c \in Sigma : d[p, c] # nullopt} |->
        [c \in {e \in Sigma : d[q, e] # nullopt} |-> d[q, c]]]

\* Well-formed automata with n states and at most k defined moves.
AutomataOf(n, k) ==
    {[num_states |-> n, transitions |-> TableOf(n, d), start_state |-> s,
      accept_states |-> F] :
        d \in {e \in [(0..(n - 1)) \X Sigma -> (0..(n - 1)) \cup {nullopt}] :
                 Cardinality({p \in DOMAIN e : e[p] # nullopt}) <= k},
        s \in 0..(n - 1),
        F \in [0..(n - 1) -> BOOLEAN]}

Operands == UNION {AutomataOf(n, MaxDefined) : n \in 1..MaxStates}

(***************************************************************************)
(* Automaton core: delta and evaluate.                                     *)
(***************************************************************************)

\* DFA::delta(id, c)
delta(M, id, c) ==
    IF id \in DOMAIN M.transitions
    THEN IF c \in DOMAIN M.transitions[id]
         THEN M.transitions[id][c]
         ELSE nullopt
    ELSE nullopt

\* The value of curr_node when the loop of evaluate leaves, started in
\* state q on the string s: the loop stops at the first nullopt.
RECURSIVE Trace(_, _, _)
Trace(M, q, s) ==
    IF s = <<>> \/ q = nullopt THEN q
    ELSE Trace(M, delta(M, q, Head(s)), Tail(s))

\* accept_states[i]: the values a read can return.
accept_at(M, i) ==
    IF i \in DOMAIN M.accept_states THEN {M.accept_states[i]} ELSE BOOLEAN

\* DFA::evaluate: the values `curr_node && curr_node->is_accept' can have.
evaluate(M, s) ==
    LET q == Trace(M, M.start_state, s)
    IN  IF q = nullopt THEN {FALSE} ELSE accept_at(M, q)

\* evaluate reads accept_states out of range on s
evaluate_ub(M, s) ==
    LET q == Trace(M, M.start_state, s)
    IN  q # nullopt /\ q \notin DOMAIN M.accept_states

(***************************************************************************)
(* Product constructor.                                                    *)
(***************************************************************************)

\* retrieve_accepting_indices(F)
retrieve_accepting_indices(F) == {i \in DOMAIN F : F[i]}

\* keys_intersection(tb_a, tb_b): the characters with a move in both tables
keys_intersection(tb_a, tb_b) == (DOMAIN tb_a) \cap (DOMAIN tb_b)

\* a flattening that adds the two indices
flatten_indices_sum(S2, a, b) == a + b

\* flatten_indices of cross_product_construction, S2 made explicit
flatten_indices(S2, a, b) == (a * S2) + b

\* construct_delta_intersection(tb_a, tb_b, flatten_indices); the closure
\* flatten_indices is passed as the S2 it captures.  The loops write
\* out[q_prime][c] for every pair of table entries and every shared
\* character; flatten_indices is injective on the pairs of every table the
\* operations are applied to, so each cell is written once.
construct_delta_intersection(tb_a, tb_b, S2) ==
    LET pairs == {p \in (DOMAIN tb_a) \X (DOMAIN tb_b) :
                    keys_intersection(tb_a[p[1]], tb_b[p[2]]) # {}}
        at(q_prime) ==
            {p \in pairs : flatten_indices(S2, p[1], p[2]) = q_prime}
    IN  [q_prime \in {flatten_indices(S2, p[1], p[2]) : p \in pairs} |->
            [c \in UNION {keys_intersection(tb_a[p[1]], tb_b[p[2]]) :
                            p \in at(q_prime)} |->
                LET p == CHOOSE r \in at(q_prime) :
                            c \in keys_intersection(tb_a[r[1]], tb_b[r[2]])
                IN  flatten_indices(S2, tb_a[p[1]][c], tb_b[p[2]][c])]]

\* a union table that also moves the first operand alone where the second
\* has no move
construct_delta_union_one_sided(tb_a, tb_b, S2, SA, SB) ==
    LET both == construct_delta_intersection(tb_a, tb_b, S2)
        extra == {e \in (DOMAIN tb_a) \X (0..(SB - 1)) \X Sigma :
                    /\ e[3] \in DOMAIN tb_a[e[1]]
                    /\ ~(e[2] \in DOMAIN tb_b /\ e[3] \in DOMAIN tb_b[e[2]])}
        from(q) == {e \in extra : flatten_indices(S2, e[1], e[2]) = q}
        inboth(q, c) == q \in DOMAIN both /\ c \in DOMAIN both[q]
    IN  [q \in (DOMAIN both) \cup {flatten_indices(S2, e[1], e[2]) : e \in extra}
            |-> [c \in {d \in Sigma : inboth(q, d) \/ \E e \in from(q) : e[3] = d}
                    |-> IF inboth(q, c) THEN both[q][c]
                        ELSE LET e == CHOOSE x \in from(q) : x[3] = c
                             IN  flatten_indices(S2, tb_a[e[1]][c], e[2])]]

\* construct_delta_union(tb_a, tb_b, flatten_indices, SA, SB): the table of
\* construct_delta_intersection; the two loops after it insert nothing.
construct_delta_union(tb_a, tb_b, S2, SA, SB) ==
    construct_delta_intersection(tb_a, tb_b, S2)

\* The indices i_prime of the statements
\* `M_prime.accept_states[i_prime] = true' of cross_product_construction.
accept_writes(A, B, intersection_construction) ==
    LET S1 == A.num_states
        S2 == B.num_states
        M1_accept_indices == retrieve_accepting_indices(A.accept_states)
        M2_accept_indices == retrieve_accepting_indices(B.accept_states)
    IN  IF intersection_construction
        THEN {flatten_indices(S2, i_qa, i_qb) :
                i_qa \in M1_accept_indices, i_qb \in M2_accept_indices}
        ELSE {flatten_indices(S2, i_qa, j) :
                i_qa \in M1_accept_indices, j \in 0..(S2 - 1)}
             \cup
             {flatten_indices(S2, i, i_qb) :
                i \in 0..(S1 - 1), i_qb \in M2_accept_indices}

\* a product that adds the state counts
product_num_states_sum(S1, S2) == S1 + S2

\* `M_prime.num_states = S1 * S2'
product_num_states(S1, S2) == S1 * S2

\* v after `v[i] = true' for every i of W: operator[] does not grow the
\* vector, a write past its end changes none of its size() entries.
store_true(v, W) == [i \in DOMAIN v |-> IF i \in W THEN TRUE ELSE v[i]]

\* cross_product_construction(M1, M2, intersection_construction)
cross_product_construction(A, B, intersection_construction) ==
    LET M_prime == DFA_default
        S1 == A.num_states
        S2 == B.num_states
        flatten(a, b) == flatten_indices(S2, a, b)
    IN  [num_states |-> product_num_states(S1, S2),
         transitions |->
            IF intersection_construction
            THEN construct_delta_intersection(A.transitions, B.transitions,
                                              S2)
            ELSE construct_delta_union(A.transitions, B.transitions,
                                       S2, S1, S2),
         start_state |-> flatten(A.start_state, B.start_state),
         accept_states |->
            store_true(M_prime.accept_states,
                       accept_writes(A, B, intersection_construction))]

\* cross_product_construction writes accept_states out of range
cross_product_ub(A, B, intersection_construction) ==
    \E i \in accept_writes(A, B, intersection_construction) :
        i \notin DOMAIN DFA_default.accept_states

\* DFA::intersection(other)
intersection(A, B) == cross_product_construction(A, B, TRUE)

\* the union automaton: cross_product_construction(M1, M2, false)
union_or(A, B) == cross_product_construction(A, B, FALSE)

(***************************************************************************)
(* Complement and clear.                                                   *)
(***************************************************************************)

\* a complement() that flips the accept bit of the start state only
complement_flip_start(M) ==
    [M EXCEPT !.accept_states =
        [i \in DOMAIN @ |-> IF i = M.start_state THEN ~@[i] ELSE @[i]]]

\* a complement() that leaves out `accept_states.flip()'
complement_no_flip(M) == M

\* DFA::complement(): a copy with accept_states.flip()
complement(M) ==
    [M EXCEPT !.accept_states = [i \in DOMAIN @ |-> ~@[i]]]

\* DFA::clear(); start_state is not assigned
clear(M) ==
    [M EXCEPT !.num_states = 0, !.transitions = <<>>,
              !.accept_states = <<>>]

(***************************************************************************)
(* The state machine.  The caller holds two operand automata and the       *)
(* automaton the last operation returned; it applies the operations of     *)
(* the DFA interface to them and evaluates strings.                        *)
(***************************************************************************)

Idle == ~crashed /\ ret # "running" /\ op # "refining"

EvalVars == <<input, pos, curr_node, steps, subject, ret>>

\* An operation returning the automaton `out'.  When the operation made an
\* out-of-range access the process dies in it, or survives it.
Return(name, out, undefined) ==
    /\ op' = name
    /\ ub' = undefined
    /\ \E die \in (IF undefined THEN BOOLEAN ELSE {FALSE}) :
          /\ crashed' = die
          /\ R' = IF die THEN R ELSE out

\* R = M1.intersection(M2)
Intersection ==
    /\ Idle
    /\ Return("intersection", intersection(M1, M2),
              cross_product_ub(M1, M2, TRUE))
    /\ UNCHANGED <<M1, M2, EvalVars, partition>>

\* R = cross_product_construction(M1, M2, false)
Union ==
    /\ Idle
    /\ Return("union", union_or(M1, M2), cross_product_ub(M1, M2, FALSE))
    /\ UNCHANGED <<M1, M2, EvalVars, partition>>

\* a complement() that flips the accept bits of *this and returns it
Complement_in_place ==
    /\ Idle
    /\ M1' = complement(M1)
    /\ Return("complement", M1', FALSE)
    /\ UNCHANGED <<M2, EvalVars, partition>>

\* R = M1.complement()
Complement ==
    /\ Idle
    /\ Return("complement", complement(M1), FALSE)
    /\ UNCHANGED <<M1, M2, EvalVars, partition>>

\* a further complement that is taken of the operand again
ComplementResult_of_operand ==
    /\ Idle
    /\ op \in {"intersection", "union", "complement", "empty_string"}
    /\ Return(IF op = "complement" THEN "complement_complement"
              ELSE "complement_result", complement(M1), FALSE)
    /\ UNCHANGED <<M1, M2, EvalVars, partition>>

\* R = R.complement(): a further operation on a returned automaton;
\* M1.complement().complement() when R is M1.complement()
ComplementResult ==
    /\ Idle
    /\ op \in {"intersection", "union", "complement", "empty_string"}
    /\ Return(IF op = "complement" THEN "complement_complement"
              ELSE "complement_result", complement(R), FALSE)
    /\ UNCHANGED <<M1, M2, EvalVars, partition>>

\* R = DFA::empty_string()
EmptyString ==
    /\ Idle
    /\ Return("empty_string", empty_string, FALSE)
    /\ UNCHANGED <<M1, M2, EvalVars, partition>>

\* R.clear()
ClearResult ==
    /\ Idle
    /\ op # "clear_result"
    /\ R' = clear(R)
    /\ op' = "clear_result"
    /\ ub' = FALSE
    /\ UNCHANGED <<M1, M2, crashed, EvalVars, partition>>

\* M1.clear() or M2.clear()
ClearOperand ==
    /\ Idle
    /\ \/ M1' = clear(M1) /\ M1.num_states # 0 /\ M2' = M2
       \/ M2' = clear(M2) /\ M2.num_states # 0 /\ M1' = M1
    /\ op' = "clear_operand"
    /\ ub' = FALSE
    /\ UNCHANGED <<R, crashed, EvalVars, partition>>

\* evaluate(begin, end) called on M: `curr_node = start_state'
EvalBegin ==
    /\ Idle
    /\ \E M \in {M1, R}, s \in Strings :
          /\ subject' = M
          /\ input' = s
          /\ curr_node' = M.start_state
    /\ pos' = 0
    /\ steps' = 0
    /\ ret' = "running"
    /\ ub' = FALSE
    /\ UNCHANGED <<M1, M2, R, op, crashed, partition>>

\* a loop `while(begin != end)' that goes on reading after a missing move
EvalStep_past_undefined ==
    /\ ~crashed
    /\ ret = "running"
    /\ pos # Len(input)
    /\ curr_node' = IF curr_node = nullopt THEN nullopt
                    ELSE delta(subject, curr_node, input[pos + 1])
    /\ pos' = pos + 1
    /\ steps' = steps + 1
    /\ UNCHANGED <<M1, M2, R, op, ub, crashed, input, subject, ret,
                   partition>>

\* one iteration of `while(begin != end && curr_node)'
EvalStep ==
    /\ ~crashed
    /\ ret = "running"
    /\ pos # Len(input)
    /\ curr_node # nullopt
    /\ curr_node' = delta(subject, curr_node, input[pos + 1])
    /\ pos' = pos + 1
    /\ steps' = steps + 1
    /\ UNCHANGED <<M1, M2, R, op, ub, crashed, input, subject, ret,
                   partition>>

\* `return curr_node && curr_node->is_accept', the accept bit of the
\* current state read from accept_states
EvalReturn ==
    /\ ~crashed
    /\ ret = "running"
    /\ ~(pos # Len(input) /\ curr_node # nullopt)
    /\ ub' = (curr_node # nullopt /\ curr_node \notin DOMAIN subject.accept_states)
    /\ \E die \in (IF ub' THEN BOOLEAN ELSE {FALSE}) :
          /\ crashed' = die
          /\ IF die
             THEN ret' = "none"
             ELSE \E v \in (IF curr_node = nullopt THEN {FALSE}
                             ELSE accept_at(subject, curr_node)) :
                    ret' = IF v THEN "true" ELSE "false"
    /\ UNCHANGED <<M1, M2, R, op, input, pos, curr_node, steps, subject,
                   partition>>

InitCommon ==
    /\ R = empty_string
    /\ op = "init"
    /\ ub = FALSE
    /\ crashed = FALSE
    /\ input = <<>>
    /\ pos = 0
    /\ curr_node = nullopt
    /\ steps = 0
    /\ subject = empty_string
    /\ ret = "none"
    /\ partition = {}

\* The closure operations on two operands.
Init ==
    /\ M1 \in Operands
    /\ M2 \in Operands
    /\ InitCommon

Next ==
    \/ Intersection
    \/ Union
    \/ Complement
    \/ ComplementResult
    \/ EmptyString
    \/ ClearResult
    \/ ClearOperand

Spec == Init /\ [][Next]_vars

\* Evaluation, of one operand and of what the unary operations return.
OperandsEval == UNION {AutomataOf(n, n * Cardinality(Sigma)) : n \in 1..MaxStates}

InitEval ==
    /\ M1 \in OperandsEval
    /\ M2 = empty_string
    /\ InitCommon

NextEval ==
    \/ Complement
    \/ EmptyString
    \/ ClearResult
    \/ EvalBegin
    \/ EvalStep
    \/ EvalReturn

SpecEval == InitEval /\ [][NextEval]_vars

(***************************************************************************)
(* Lookups that throw.  std::unordered_map::at throws std::out_of_range    *)
(* for a missing key; count, find and operator[] never throw.              *)
(***************************************************************************)
map_at_throws(tb, k) == k \notin DOMAIN tb

\* a delta that looks the state and the character up without the count
\* guards
delta_throws_unguarded(M, id, c) ==
    \/ map_at_throws(M.transitions, id)
    \/ map_at_throws(M.transitions[id], c)

\* DFA::delta(id, c) throws: transitions.at(id) is under
\* `if(transitions.count(id))', n_transition_tb.at(c) under
\* `if(n_transition_tb.count(c))'.
delta_throws(M, id, c) ==
    /\ id \in DOMAIN M.transitions
    /\ \/ map_at_throws(M.transitions, id)
       \/ /\ c \in DOMAIN M.transitions[id]
          /\ map_at_throws(M.transitions[id], c)

\* DFA::evaluate throws: the loop calls delta on the current state for
\* every character read while the current state is not null.
evaluate_throws(M, s) ==
    \E k \in 1..Len(s) :
        /\ Trace(M, M.start_state, SubSeq(s, 1, k - 1)) # nullopt
        /\ delta_throws(M, Trace(M, M.start_state, SubSeq(s, 1, k - 1)), s[k])

\* construct_delta_intersection throws: qa_state_transition_tb.at(c) and
\* qb_state_transition_tb.at(c), for the shared characters of every pair of
\* table entries.
construct_delta_intersection_throws(tb_a, tb_b) ==
    \E q_a \in DOMAIN tb_a, q_b \in DOMAIN tb_b :
        \E c \in keys_intersection(tb_a[q_a], tb_b[q_b]) :
            \/ map_at_throws(tb_a[q_a], c)
            \/ map_at_throws(tb_b[q_b], c)

\* construct_delta_union throws: the call of construct_delta_intersection,
\* and tb_b.at(q_b) in `if(tb_b.count(q_b) && tb_b.at(q_b).count(c))' for
\* every move of tb_a and every j < SB.
construct_delta_union_throws(tb_a, tb_b, SA, SB) ==
    \/ construct_delta_intersection_throws(tb_a, tb_b)
    \/ \E q_a \in DOMAIN tb_a, q_b \in 0..(SB - 1) :
          \E c \in DOMAIN tb_a[q_a] :
              /\ q_b \in DOMAIN tb_b
              /\ map_at_throws(tb_b, q_b)

\* cross_product_construction throws while it builds the transition table
cross_product_throws(A, B, intersection_construction) ==
    IF intersection_construction
    THEN construct_delta_intersection_throws(A.transitions, B.transitions)
    ELSE construct_delta_union_throws(A.transitions, B.transitions,
                                      A.num_states, B.num_states)

(***************************************************************************)
(* Sequential composer and minimizer.  DFA::concatenate, DFA::kleene_star  *)
(* and DFA::minimize_states are declared in dfa.h and have no definition;  *)
(* they are modelled as the design describes them: composite states        *)
(* tracked as sets of active states, interned into a fresh dense id space, *)
(* and partition refinement from the accepting / non-accepting split.      *)
(***************************************************************************)

\* Interning: the keys of K numbered i, i+1, ... in some order.
RECURSIVE intern(_, _)
intern(K, i) ==
    IF K = {} THEN <<>>
    ELSE LET k == CHOOSE e \in K : TRUE
         IN  (k :> i) @@ intern(K \ {k}, i + 1)

\* a hand-off that seeds M2 only from the start state of M1
concatenate_seed_start_only(A, B, a) ==
    IF a = A.start_state /\ A.accept_states[a] THEN {B.start_state} ELSE {}

\* Concatenation: the composite state <<a, B>> of the current M1 state a
\* (nullopt once dead) and the set B of active M2 states.
concatenate_seed(A, B, a) ==
    IF a # nullopt /\ A.accept_states[a] THEN {B.start_state} ELSE {}

concatenate_start(A, B) ==
    <<A.start_state, concatenate_seed(A, B, A.start_state)>>

concatenate_step(A, B, k, c) ==
    LET a2 == IF k[1] = nullopt THEN nullopt ELSE delta(A, k[1], c)
        moved == {delta(B, b, c) : b \in k[2]} \ {nullopt}
    IN  <<a2, moved \cup concatenate_seed(A, B, a2)>>

\* the composite state with no live component: never materialized
concatenate_dead == <<nullopt, {}>>

concatenate_accept(A, B, k) ==
    \/ \E b \in k[2] : B.accept_states[b]
    \/ /\ k = concatenate_start(A, B)
       /\ A.accept_states[A.start_state]
       /\ B.accept_states[B.start_state]

RECURSIVE concatenate_explore(_, _, _, _)
concatenate_explore(A, B, seen, frontier) ==
    IF frontier = {} THEN seen
    ELSE LET next == ({concatenate_step(A, B, k, c) :
                            k \in frontier, c \in Sigma}
                        \ seen) \ {concatenate_dead}
         IN  concatenate_explore(A, B, seen \cup next, next)

\* DFA::concatenate(other)
concatenate(A, B) ==
    LET K == concatenate_explore(A, B, {concatenate_start(A, B)},
                                 {concatenate_start(A, B)})
        id == intern(K, 0)
        n == Cardinality(K)
        key(i) == CHOOSE k \in K : id[k] = i
        d == [p \in (0..(n - 1)) \X Sigma |->
                LET k2 == concatenate_step(A, B, key(p[1]), p[2])
                IN  IF k2 = concatenate_dead THEN nullopt ELSE id[k2]]
    IN  [num_states |-> n,
         transitions |-> TableOf(n, d),
         start_state |-> id[concatenate_start(A, B)],
         accept_states |->
            [i \in 0..(n - 1) |-> concatenate_accept(A, B, key(i))]]


\* Kleene star: the composite state is the set of active states of M;
\* reaching an accepting state restarts at M's start state.
kleene_star_start(M) == {M.start_state}

kleene_star_step(M, k, c) ==
    LET moved == {delta(M, b, c) : b \in k} \ {nullopt}
    IN  IF \E q \in moved : M.accept_states[q]
        THEN moved \cup {M.start_state}
        ELSE moved

\* the start composite state is always marked accepting
kleene_star_accept(M, k) ==
    \/ k = kleene_star_start(M)
    \/ \E b \in k : M.accept_states[b]

RECURSIVE kleene_star_explore(_, _, _)
kleene_star_explore(M, seen, frontier) ==
    IF frontier = {} THEN seen
    ELSE LET next == ({kleene_star_step(M, k, c) :
                            k \in frontier, c \in Sigma}
                        \ seen) \ {{}}
         IN  kleene_star_explore(M, seen \cup next, next)

\* DFA::kleene_star()
kleene_star(M) ==
    LET K == kleene_star_explore(M, {kleene_star_start(M)},
                                 {kleene_star_start(M)})
        id == intern(K, 0)
        n == Cardinality(K)
        key(i) == CHOOSE k \in K : id[k] = i
        d == [p \in (0..(n - 1)) \X Sigma |->
                LET k2 == kleene_star_step(M, key(p[1]), p[2])
                IN  IF k2 = {} THEN nullopt ELSE id[k2]]
    IN  [num_states |-> n,
         transitions |-> TableOf(n, d),
         start_state |-> id[kleene_star_start(M)],
         accept_states |->
            [i \in 0..(n - 1) |-> kleene_star_accept(M, key(i))]]

\* Minimizer: the states reachable from the start state
RECURSIVE reachable_explore(_, _, _)
reachable_explore(M, seen, frontier) ==
    IF frontier = {} THEN seen
    ELSE LET next == ({delta(M, q, c) : q \in frontier, c \in Sigma}
                        \ seen) \ {nullopt}
         IN  reachable_explore(M, seen \cup next, next)

reachable_states(M) ==
    reachable_explore(M, {M.start_state}, {M.start_state})

\* the initial partition: accepting / non-accepting reachable states
initial_partition(M) ==
    {{q \in reachable_states(M) : M.accept_states[q]},
     {q \in reachable_states(M) : ~M.accept_states[q]}} \ {{}}

\* the class of P a move leads to; the empty class for a missing move
target_class(M, P, q, c) ==
    IF delta(M, q, c) = nullopt THEN {}
    ELSE CHOOSE C \in P : delta(M, q, c) \in C

\* a round that groups the states by their target classes alone, without
\* keeping them within their classes
refine_by_targets_only(M, P) ==
    {{q \in UNION P : \A c \in Sigma :
          target_class(M, P, q, c) = target_class(M, P, p, c)} :
        p \in UNION P}

\* one refinement round: every class is split by the target classes of
\* its members
refine(M, P) ==
    UNION {{{q \in C : \A c \in Sigma :
                  target_class(M, P, q, c) = target_class(M, P, p, c)} :
              p \in C} : C \in P}

\* a refinement that stops after its first round
refine_fixpoint_one_round(M, P) == refine(M, P)

\* refinement until no class is split
RECURSIVE refine_fixpoint(_, _)
refine_fixpoint(M, P) ==
    IF refine(M, P) = P THEN P ELSE refine_fixpoint(M, refine(M, P))

\* the output automaton of a partition P of the reachable states of M: one
\* state per class, transitions, start and accept the images of the
\* class representatives
quotient(M, P) ==
    LET id == intern(P, 0)
        n == Cardinality(P)
        rep(i) == CHOOSE q \in reachable_states(M) : \E C \in P : q \in C /\ id[C] = i
        d == [p \in (0..(n - 1)) \X Sigma |->
                IF delta(M, rep(p[1]), p[2]) = nullopt THEN nullopt
                ELSE id[target_class(M, P, rep(p[1]), p[2])]]
    IN  [num_states |-> n,
         transitions |-> TableOf(n, d),
         start_state |-> id[CHOOSE C \in P : M.start_state \in C],
         accept_states |-> [i \in 0..(n - 1) |-> M.accept_states[rep(i)]]]

\* DFA::minimize_states(): one state per class of the fixed point
minimize_states(M) == quotient(M, refine_fixpoint(M, initial_partition(M)))

\* R = M1.concatenate(M2)
Concatenate ==
    /\ Idle
    /\ Return("concatenate", concatenate(M1, M2), FALSE)
    /\ UNCHANGED <<M1, M2, EvalVars, partition>>

\* R = M1.kleene_star()
KleeneStar ==
    /\ Idle
    /\ Return("kleene_star", kleene_star(M1), FALSE)
    /\ UNCHANGED <<M1, M2, EvalVars, partition>>

\* R = M1.minimize_states()
Minimize ==
    /\ Idle
    /\ Return("minimize", minimize_states(M1), FALSE)
    /\ UNCHANGED <<M1, M2, EvalVars, partition>>

\* R = R.minimize_states(): minimizing what a composition or a
\* minimization returned
MinimizeResult ==
    /\ Idle
    /\ op \in {"concatenate", "kleene_star", "minimize",
               "minimize_concatenate", "minimize_kleene_star"}
    /\ Return("minimize_" \o op, minimize_states(R), FALSE)
    /\ UNCHANGED <<M1, M2, EvalVars, partition>>

\* R.minimize_states() round by round.  It starts from the accepting /
\* non-accepting split of the reachable states of R.
RefineBegin ==
    /\ Idle
    /\ op = "concatenate"
    /\ op' = "refining"
    /\ partition' = initial_partition(R)
    /\ UNCHANGED <<M1, M2, R, ub, crashed, EvalVars>>

\* one refinement round that splits a class
RefineRound ==
    /\ op = "refining"
    /\ refine(R, partition) # partition
    /\ partition' = refine(R, partition)
    /\ UNCHANGED <<M1, M2, R, op, ub, crashed, EvalVars>>

\* no class is split: the fixed point; the automaton of its classes is
\* returned
RefineEnd ==
    /\ op = "refining"
    /\ refine(R, partition) = partition
    /\ op' = "minimize_concatenate"
    /\ R' = quotient(R, partition)
    /\ UNCHANGED <<M1, M2, ub, crashed, EvalVars, partition>>

\* Concatenation of two operands, and the minimization of what it returns.
NextConcat ==
    \/ Concatenate
    \/ MinimizeResult

SpecConcat == Init /\ [][NextConcat]_vars

\* Kleene star and minimization of one operand.
NextUnary ==
    \/ KleeneStar
    \/ Minimize
    \/ MinimizeResult

SpecUnary == InitEval /\ [][NextUnary]_vars

\* Concatenation with the automaton of the empty string, and the
\* minimization of what it returns round by round.
\* minimize_states runs to completion once called: its rounds are fair.
NextRefine ==
    \/ Concatenate
    \/ RefineBegin
    \/ RefineRound
    \/ RefineEnd

\* The first operand has one more state and one more defined move than the
\* operands of Spec, so that a refinement takes several rounds.
OperandsRefine == AutomataOf(MaxStates + 1, MaxDefined + 1)

InitRefine ==
    /\ M1 \in OperandsRefine
    /\ M2 = empty_string
    /\ InitCommon

SpecRefine ==
    /\ InitRefine
    /\ [][NextRefine]_vars
    /\ WF_vars(RefineRound)
    /\ WF_vars(RefineEnd)

(***************************************************************************)
(* Vocabulary of the properties.                                           *)
(***************************************************************************)

\* n states, the start state and every move inside 0..n-1, n accept bits
WellFormed(M) ==
    /\ DOMAIN M.accept_states = 0..(M.num_states - 1)
    /\ M.num_states > 0 => M.start_state \in 0..(M.num_states - 1)
    /\ \A q \in DOMAIN M.transitions :
          /\ q \in 0..(M.num_states - 1)
          /\ \A c \in DOMAIN M.transitions[q] :
                M.transitions[q][c] \in 0..(M.num_states - 1)

\* every (state, symbol) has a move
Total(M) ==
    \A q \in 0..(M.num_states - 1), c \in Sigma : delta(M, q, c) # nullopt

\* the state M is in after the whole of s, read symbol by symbol from the
\* start state; nullopt once a move is missing
RECURSIVE Reach(_, _)
Reach(M, s) ==
    IF s = <<>> THEN M.start_state
    ELSE LET q == Reach(M, SubSeq(s, 1, Len(s) - 1))
         IN  IF q = nullopt THEN nullopt ELSE delta(M, q, s[Len(s)])

\* M, an automaton with a start state and all its accept bits, accepts s
Accepts(M, s) ==
    /\ Reach(M, s) # nullopt
    /\ M.accept_states[Reach(M, s)]

\* the number of symbols of s read before a move is missing
Consumed(M, s) ==
    LET dead == {k \in 0..Len(s) : Reach(M, SubSeq(s, 1, k)) = nullopt}
    IN  IF dead = {} THEN Len(s)
        ELSE CHOOSE k \in dead : \A j \in dead : k <= j

Products == {"intersection", "union"}

(***************************************************************************)
(* The properties.                                                         *)
(***************************************************************************)

\* C1: the automaton intersection(M1, M2) returns, for operands with at
\* least one state, evaluates every string x to true exactly when M1 and
\* M2 both evaluate x to true (and the construction returns).
C1_IntersectionLanguage ==
    (op = "intersection" /\ M1.num_states > 0 /\ M2.num_states > 0) =>
        /\ ~crashed
        /\ \A x \in Strings :
              evaluate(R, x) = {Accepts(M1, x) /\ Accepts(M2, x)}

\* C2: the union automaton of the cross-product construction accepts x
\* if and only if M1 or M2 evaluates x to true.  Stated on the strings
\* both operands evaluate without an out-of-range read, and in the form
\* most favourable to the code: the value the claim names is among the
\* values the evaluation of the product can return.
C2_UnionLanguage ==
    (op = "union" /\ ~crashed) =>
        \A x \in Strings :
            (~evaluate_ub(M1, x) /\ ~evaluate_ub(M2, x)) =>
                ((TRUE \in evaluate(M1, x) \/ TRUE \in evaluate(M2, x))
                    \in evaluate(R, x))

\* C3: complement(M) evaluates x to true exactly when M evaluates x to
\* false, also for M with a partial transition function, complement having
\* completed M with a reject state.
C3_ComplementPartial ==
    op = "complement" =>
        \A x \in Strings : evaluate(R, x) = {~Accepts(M1, x)}

\* C4: for M with at least one state and a total transition function,
\* complement(M).evaluate(x) = ~M.evaluate(x) for every x.
C4_ComplementTotal ==
    (op = "complement" /\ M1.num_states > 0 /\ Total(M1)) =>
        \A x \in Strings : evaluate(R, x) = {~Accepts(M1, x)}

C4_Witness ==
    /\ op = "complement"
    /\ M1.num_states = 2
    /\ Total(M1)
    /\ \E x, y \in Strings :
          /\ Accepts(M1, x) /\ evaluate(R, x) = {FALSE}
          /\ ~Accepts(M1, y) /\ evaluate(R, y) = {TRUE}
          /\ Len(y) = MaxLen

\* C5: evaluate, on an automaton with a start state, starts at the start
\* state and applies delta to the symbols in order (one call of delta per
\* symbol read); it reads no symbol after a missing move; it returns true
\* if and only if every move along the whole input is defined and the
\* state reached is accepting.
C5_EvaluateFold ==
    (ret # "none" /\ WellFormed(subject) /\ subject.num_states > 0) =>
        /\ steps = pos
        /\ pos <= Consumed(subject, input)
        /\ curr_node = Reach(subject, SubSeq(input, 1, pos))
        /\ ret \in {"true", "false"} =>
              /\ pos = Consumed(subject, input)
              /\ (ret = "true") <=> Accepts(subject, input)
              /\ (ret = "true") \in evaluate(subject, input)
              /\ ~ub /\ ~crashed

C5_Witness ==
    /\ ret = "false"
    /\ subject.num_states = 2
    /\ Len(input) = MaxLen
    /\ pos = 2
    /\ curr_node = nullopt
    /\ Accepts(subject, SubSeq(input, 1, 1))

\* C6: empty_string() (and the DFA dfa.h constructs by default) has one
\* state, no transitions, that state as start and as only accepting
\* state; it accepts the empty string and rejects every other string.
C6_EmptyString ==
    op = "empty_string" =>
        /\ R.num_states = 1
        /\ R.transitions = <<>>
        /\ R.start_state = 0
        /\ DOMAIN R.accept_states = {0}
        /\ R.accept_states[0]
        /\ R = config_empty_string
        /\ \A x \in Strings : evaluate(R, x) = {x = <<>>}
        /\ (subject = R /\ ret \in {"true", "false"}) =>
              (ret = "true") = (input = <<>>)

C6_Witness ==
    /\ op = "empty_string"
    /\ subject = R
    /\ ret = "false"
    /\ Len(input) = MaxLen
    /\ steps = 1

\* C7: after clear() the automaton has zero states, no transitions, no
\* accept bit, and evaluate returns false on every input, the empty string
\* included, without a call of delta.
C7_ClearZeroState ==
    op = "clear_result" =>
        /\ R.num_states = 0
        /\ R.transitions = <<>>
        /\ R.accept_states = <<>>
        /\ (subject = R /\ ret # "none") =>
              /\ steps = 0
              /\ ret \in {"running", "false"}
              /\ ~ub

\* C8: every automaton empty_string, intersection, union, complement and
\* clear produce from well-formed inputs is well-formed; the product has
\* S1*S2 accept bits and every accept write is in range.
C8_WellFormedResults ==
    /\ ~ub
    /\ ~crashed
    /\ WellFormed(R)
    /\ WellFormed(M1)
    /\ WellFormed(M2)

\* C9: a product construction that returns, returns an automaton of
\* exactly S1*S2 states; with a zero-state operand it has zero states, no
\* transitions and no accepting state.
C9_ProductStateCount ==
    (op \in Products /\ ~crashed) =>
        /\ R.num_states = M1.num_states * M2.num_states
        /\ (M1.num_states = 0 \/ M2.num_states = 0) =>
              /\ R.num_states = 0
              /\ R.transitions = <<>>
              /\ retrieve_accepting_indices(R.accept_states) = {}
              /\ ~ub

C9_Witness ==
    /\ op = "union"
    /\ ~crashed
    /\ M1.num_states = 1
    /\ M2.num_states = 2
    /\ R.num_states = 2
    /\ R.transitions # <<>>

\* C10: no operation but clear() changes an automaton that exists: every
\* step of intersection, union, complement, empty_string, and of clear()
\* or complement on the returned automaton, leaves both operands as they
\* were, and a step that changes an operand is its clear().
C10_OperandsUnchanged ==
    [][/\ op' # "clear_operand" => (M1' = M1 /\ M2' = M2)
       /\ op' = "clear_operand" =>
             \/ M1' = clear(M1) /\ M2' = M2
             \/ M2' = clear(M2) /\ M1' = M1]_vars

C10_Witness ==
    /\ op = "clear_result"
    /\ R.start_state = 3
    /\ M1.num_states = 2
    /\ M2.num_states = 2
    /\ M1.transitions # <<>>
    /\ retrieve_accepting_indices(M2.accept_states) # {}

\* C11: the products are commutative up to language: for operands with at
\* least one state and every string x, evaluate returns the same value on
\* intersection(M1, M2) and on intersection(M2, M1), and the same value on
\* the union product of (M1, M2) and of (M2, M1).
C11_ProductCommutes ==
    (op \in Products /\ ~crashed /\ M1.num_states > 0 /\ M2.num_states > 0)
        =>
        LET swapped ==
                cross_product_construction(M2, M1, op = "intersection")
        IN  /\ ~cross_product_ub(M2, M1, op = "intersection")
            /\ \A x \in Strings :
                 \A v \in evaluate(R, x), w \in evaluate(swapped, x) : v = w

\* x = w.z with w accepted by A and z accepted by B, for some split point
Splits(A, B, x) ==
    {k \in 0..Len(x) : /\ Accepts(A, SubSeq(x, 1, k))
                       /\ Accepts(B, SubSeq(x, k + 1, Len(x)))}

RECURSIVE InStar(_, _)
InStar(M, x) ==
    \/ x = <<>>
    \/ \E k \in 1..Len(x) :
          /\ Accepts(M, SubSeq(x, 1, k))
          /\ InStar(M, SubSeq(x, k + 1, Len(x)))

\* C13: kleene_star(M) evaluates x to true if and only if x is the
\* concatenation of zero or more strings M accepts; in particular it
\* accepts the empty string.
C13_KleeneStarLanguage ==
    op = "kleene_star" =>
        /\ evaluate(R, <<>>) = {TRUE}
        /\ \A x \in Strings : evaluate(R, x) = {InStar(M1, x)}

\* some suffix is accepted from exactly one of the states p and q
Distinguished(M, p, q) ==
    \E s \in Strings :
        Accepts([M EXCEPT !.start_state = p], s)
            # Accepts([M EXCEPT !.start_state = q], s)

\* the classes of the states some string reaches, two states sharing a
\* class exactly when no suffix distinguishes them
NerodeClasses(M) ==
    LET reached == {Reach(M, s) : s \in Strings} \ {nullopt}
    IN  {{q \in reached : ~Distinguished(M, p, q)} : p \in reached}

\* C14: minimize(M), a well-formed automaton, evaluates every x as M does,
\* and it has one state per class of reachable states that no suffix
\* distinguishes: unreachable states are dropped and exactly the
\* indistinguishable states are merged.
C14_MinimizePreservesLanguage ==
    op = "minimize" =>
        /\ WellFormed(R)
        /\ \A x \in Strings : evaluate(R, x) = {Accepts(M1, x)}
        /\ R.num_states = Cardinality(NerodeClasses(M1))

\* C15: minimizing a minimized automaton does not change the number of
\* states: minimize(minimize(M)) has as many states as minimize(M), for M
\* an operand and for M what a composition returned.
C15_MinimizeIdempotent ==
    /\ op \in {"minimize", "minimize_kleene_star", "minimize_concatenate"} =>
          minimize_states(R).num_states = R.num_states
    /\ op = "minimize_minimize" =>
          R.num_states = minimize_states(M1).num_states
    /\ op = "minimize_minimize_kleene_star" =>
          R.num_states = minimize_states(kleene_star(M1)).num_states
    /\ op = "minimize_minimize_concatenate" =>
          R.num_states = minimize_states(concatenate(M1, M2)).num_states

C15_Witness ==
    /\ op = "minimize_minimize_concatenate"
    /\ R.num_states > 2
    /\ R.num_states < concatenate(M1, M2).num_states

\* the pairs (state, character) of M without a defined move
UndefinedMoves(M) ==
    {p \in (0..(M.num_states - 1)) \X Sigma :
        \/ p[1] \notin DOMAIN M.transitions
        \/ p[2] \notin DOMAIN M.transitions[p[1]]}

C19_ProductAcceptBits ==
    (op \in Products /\ ~crashed /\ M1.num_states > 0 /\ M2.num_states > 0)
        =>
        /\ ~ub
        /\ DOMAIN R.accept_states = 0..(R.num_states - 1)
        /\ \A a \in 0..(M1.num_states - 1), b \in 0..(M2.num_states - 1) :
              accept_at(R, (a * M2.num_states) + b) =
                  {IF op = "union"
                   THEN M1.accept_states[a] \/ M2.accept_states[b]
                   ELSE M1.accept_states[a] /\ M2.accept_states[b]}

\* C20: complement(M) has the state count, the transition table and the
\* start state of M, and its accept set is the set of states of M that are
\* not accepting in M: every accept bit is flipped, none added or removed.
C20_ComplementStructure ==
    op = "complement" =>
        /\ R.num_states = M1.num_states
        /\ R.transitions = M1.transitions
        /\ R.start_state = M1.start_state
        /\ DOMAIN R.accept_states = DOMAIN M1.accept_states
        /\ \A i \in DOMAIN M1.accept_states :
              R.accept_states[i] = ~M1.accept_states[i]
        /\ retrieve_accepting_indices(R.accept_states) =
               (0..(M1.num_states - 1))
                   \ retrieve_accepting_indices(M1.accept_states)

C20_Witness ==
    /\ op = "complement"
    /\ M1.num_states = 2
    /\ M1.transitions # <<>>
    /\ M1.accept_states[0] # M1.accept_states[1]
    /\ R.accept_states[0] = M1.accept_states[1]
    /\ R.accept_states[1] = M1.accept_states[0]

\* the reachable states of the automaton under refinement
RefinedStates == UNION partition

\* C21 (rounds): a round that changes the partition strictly increases the
\* number of classes, and every class of the new partition lies within a
\* class of the old one.
C21_RoundsSplit ==
    [][(op = "refining" /\ partition' # partition) =>
          /\ Cardinality(partition') > Cardinality(partition)
          /\ \A C \in partition' : \E D \in partition : C \subseteq D]_vars

\* C21 (bound): the refinement starts from the accepting / non-accepting
\* split of the reachable states and never has more classes than there are
\* reachable states.
C21_ClassesBounded ==
    op = "refining" =>
        /\ RefinedStates = reachable_states(R)
        /\ \A C \in partition : C # {}
        /\ \A C \in partition, D \in partition : C # D => C \cap D = {}
        /\ \A C \in partition : \A p \in C, q \in C :
              R.accept_states[p] = R.accept_states[q]
        /\ Cardinality(partition) <= Cardinality(RefinedStates)

\* C21: the partition refinement of the minimizer terminates.  From the
\* accepting / non-accepting split of the reachable states, every round
\* that changes the partition strictly increases the number of classes,
\* the number of classes never exceeds the number of reachable states, and
\* a fixed point is eventually reached and the minimizer returns.
C21_RefinementTerminates ==
    /\ []C21_ClassesBounded
    /\ C21_RoundsSplit
    /\ (op = "refining") ~> (op = "minimize_concatenate")

C21_Witness ==
    /\ op = "refining"
    /\ partition # initial_partition(R)
    /\ refine(R, partition) # partition
    /\ Cardinality(partition) = 2
    /\ Cardinality(refine(R, partition)) = 3

C23_TotalOperandsUnionExact ==
    (op \in Products /\ ~crashed /\ M1.num_states > 0 /\ M2.num_states > 0
        /\ Total(M1) /\ Total(M2))
        =>
        /\ Total(R)
        /\ op = "union" =>
              \A x \in Strings :
                  evaluate(R, x) = {Accepts(M1, x) \/ Accepts(M2, x)}

====
